---- MODULE Spec2Model ----
(***************************************************************************)
(* ElastiCache user-group lifecycle handlers and the state reconciliation  *)
(* poller they drive (internal/service/elasticache/user_group.go).         *)
(*                                                                         *)
(* Each process is one handler invocation (Create, Update or Delete) for   *)
(* its own resource.  The handler issues its mutating API call, builds a   *)
(* StateChangeConf literal and blocks in WaitForState.  WaitForState is    *)
(* not part of the handler file; its steps (Tick, RefreshCall,             *)
(* RefreshReturn, PollTimeout) follow section 4.1 of the specification.    *)
(* Time is counted in units of ten seconds.                                *)
(***************************************************************************)
EXTENDS Integers, Sequences, FiniteSets, TLC

VARIABLES
    env,            \* the run's inputs: its handler invocations, timeouts and lookup results
    pendingStates,  \* package variable resourceAwsElasticacheUserGroupPendingStates
    op,             \* handler run by each process
    pc,             \* position of each process
    timeout,        \* stateConf.Timeout
    elapsed,        \* time since WaitForState began
    wakeAt,         \* end of the current delay or sleep
    calledAt,       \* when the refresh in flight was called
    inflight,       \* refresh calls in flight
    polls,          \* WaitForState invocations started by the handler
    nCalls,         \* refresh calls made so far
    hist,           \* what the lookup inside refresh has returned, in order
    outcome,        \* what WaitForState returned
    interrupted,    \* an external cancellation was requested during a sleep
    ret,            \* what the handler returned
    readRan,        \* the final Read ran
    id,             \* d.Id()
    classes,        \* the class the poll gave each refresh result, in order
    returnedAt,     \* when the last refresh returned
    apiErr,         \* what the handler's mutating API call returned
    req,            \* Update: old and new user_ids and the ModifyUserGroup request
    msg,            \* what the handler's error message contains
    attrs,          \* whether Read has set the attributes of the managed state
    redshift        \* the Redshift target action being converted

vars == <<env, pendingStates, op, pc, timeout, elapsed, wakeAt, calledAt,
          inflight, polls, nCalls, hist, outcome, interrupted, ret, readRan, id,
          classes, returnedAt, apiErr, req, msg, attrs, redshift>>

----------------------------------------------------------------------------
(* Bounds *)

Procs == {1, 2}

\* the longest configured timeout, in units of ten seconds
MaxTimeout == 6

\* the longest a single refresh call takes
MaxRefreshTime == 1

Timeouts == {-1, 0, 2, MaxTimeout}

----------------------------------------------------------------------------
(* Program constants *)

\* Delay: 30 * time.Second
Delay == 3

\* MinTimeout: 10 * time.Second
MinTimeout == 1

InitialPendingStates == {"creating", "modifying"}

Statuses == {"creating", "modifying", "active", "deleting", "Active"}

NilStatus == "<nil>"

ErrCodes == {"UserGroupNotFoundFault", "InvalidUserGroupStateFault",
             "NotFoundError", "InternalFailure"}

\* what findElastiCacheUserGroupById can hand back: an error, no group and no
\* error, or a group whose Status is set or nil
FindResults ==
    [err : ErrCodes, found : {FALSE}, status : {""}]
      \cup [err : {"none"}, found : {FALSE}, status : {""}]
      \cup [err : {"none"}, found : {TRUE}, status : Statuses \cup {NilStatus}]

\* the user ids a user_ids set is drawn from
Users == {"u1", "u2"}

ConcUsers == {"u1"}

\* the timeouts and lookup results of the runs with two concurrent handlers
ConcTimeouts == {0, MaxTimeout - 2}

ConcFindResults ==
    {f \in FindResults :
        /\ f.err = "none"
        /\ f.status \in {"", "creating", "active", "deleting"}}

\* Update has not built a ModifyUserGroup request
NoRequest == [old |-> {}, new |-> {}, add |-> {}, remove |-> {}, sent |-> FALSE]

NoOutcome == [kind |-> "none", state |-> "", err |-> "none"]

----------------------------------------------------------------------------
(* The Redshift scheduled action's target action (aws_redshift_scheduled_action) *)

\* the keys of the target_action map
Keys == {"action", "cluster_identifier", "classic", "cluster_type", "node_type",
         "number_of_nodes"}

\* redshift.ScheduledActionTypeValues*
ActionKinds == {"PauseCluster", "ResumeCluster", "ResizeCluster"}

\* a Go interface{} value: its dynamic type and the value of that type
NilValue == [t |-> "nil", s |-> "", b |-> FALSE, n |-> 0]

OfString(x) == [t |-> "string", s |-> x, b |-> FALSE, n |-> 0]

OfBool(x) == [t |-> "bool", s |-> "", b |-> x, n |-> 0]

OfInt64(x) == [t |-> "int64", s |-> "", b |-> FALSE, n |-> x]

\* a map[string]interface{}: indexing a key the map lacks gives the nil value
EmptyMap == [k \in Keys |-> NilValue]

\* pointers of the AWS SDK: aws.String and aws.StringValue, and the like
NilString == [set |-> FALSE, v |-> ""]

AwsString(x) == [set |-> TRUE, v |-> x]

AwsStringValue(ptr) == IF ptr.set THEN ptr.v ELSE ""

NilBool == [set |-> FALSE, v |-> FALSE]

AwsBool(x) == [set |-> TRUE, v |-> x]

AwsBoolValue(ptr) == IF ptr.set THEN ptr.v ELSE FALSE

NilInt64 == [set |-> FALSE, v |-> 0]

AwsInt64(x) == [set |-> TRUE, v |-> x]

AwsInt64Value(ptr) == IF ptr.set THEN ptr.v ELSE 0

\* redshift.PauseClusterMessage and redshift.ResumeClusterMessage, as pointers
NoClusterMessage == [set |-> FALSE, ClusterIdentifier |-> NilString]

\* redshift.ResizeClusterMessage, as pointer
NoResizeMessage ==
    [set |-> FALSE, ClusterIdentifier |-> NilString, Classic |-> NilBool,
     ClusterType |-> NilString, NodeType |-> NilString, NumberOfNodes |-> NilInt64]

\* a redshift.ScheduledActionType with no variant set
NoAction == [PauseCluster |-> NoClusterMessage, ResumeCluster |-> NoClusterMessage,
             ResizeCluster |-> NoResizeMessage]

\* a *redshift.ScheduledActionType: nil, a value, or the panic that stood in
\* its place
NilAction == [res |-> "nil", value |-> NoAction]

Panicked == [res |-> "panic", value |-> NoAction]

\* the values of the target_action map a configuration can give: action and
\* cluster_identifier are required, the other four optional
ConfiguredMaps ==
    {[k \in Keys |->
        CASE k = "action" -> OfString(a)
          [] k = "cluster_identifier" -> OfString(ci)
          [] k = "classic" -> cl
          [] k = "cluster_type" -> ct
          [] k = "node_type" -> nt
          [] k = "number_of_nodes" -> nn] :
      a \in ActionKinds \cup {"RebootCluster"},
      ci \in {"c1", "c2"},
      cl \in {NilValue, OfBool(TRUE), OfBool(FALSE)},
      ct \in {NilValue, OfString("multi-node")},
      nt \in {NilValue, OfString("dc2.large")},
      nn \in {NilValue, OfInt64(2)}}

NilConfigured == [isNil |-> TRUE, m |-> EmptyMap]

Configured == {NilConfigured} \cup [isNil : {FALSE}, m : ConfiguredMaps]

\* expandRedshiftScheduledActionTargetAction; a type assertion x.(T) on a value
\* whose dynamic type is not T, the nil of a missing key included, panics
expandRedshiftScheduledActionTargetAction(configured) ==
    IF configured.isNil THEN NilAction
    ELSE LET p == configured.m IN
         IF p["action"].t # "string" THEN Panicked
         ELSE CASE p["action"].s = "PauseCluster" ->
                     IF p["cluster_identifier"].t # "string" THEN Panicked
                     ELSE [res |-> "value",
                           value |-> [NoAction EXCEPT !.PauseCluster =
                               [set |-> TRUE,
                                ClusterIdentifier |->
                                    AwsString(p["cluster_identifier"].s)]]]
                [] p["action"].s = "ResumeCluster" ->
                     IF p["cluster_identifier"].t # "string" THEN Panicked
                     ELSE [res |-> "value",
                           value |-> [NoAction EXCEPT !.ResumeCluster =
                               [set |-> TRUE,
                                ClusterIdentifier |->
                                    AwsString(p["cluster_identifier"].s)]]]
                [] p["action"].s = "ResizeCluster" ->
                     IF \/ p["cluster_identifier"].t # "string"
                        \/ p["classic"].t # "bool"
                        \/ p["cluster_type"].t # "string"
                        \/ p["node_type"].t # "string"
                        \/ p["number_of_nodes"].t # "int64"
                     THEN Panicked
                     ELSE [res |-> "value",
                           value |-> [NoAction EXCEPT !.ResizeCluster =
                               [set |-> TRUE,
                                ClusterIdentifier |->
                                    AwsString(p["cluster_identifier"].s),
                                Classic |-> AwsBool(p["classic"].b),
                                ClusterType |-> AwsString(p["cluster_type"].s),
                                NodeType |-> AwsString(p["node_type"].s),
                                NumberOfNodes |-> AwsInt64(p["number_of_nodes"].n)]]]
                [] OTHER -> NilAction

\* the map flatten builds for a pause or a resume message
ClusterMap(action, message) ==
    [k \in Keys |->
        CASE k = "action" -> OfString(action)
          [] k = "cluster_identifier" ->
                 OfString(AwsStringValue(message.ClusterIdentifier))
          [] OTHER -> NilValue]

\* the map flatten builds for a resize message
ResizeMap(message) ==
    [k \in Keys |->
        CASE k = "action" -> OfString("ResizeCluster")
          [] k = "cluster_identifier" ->
                 OfString(AwsStringValue(message.ClusterIdentifier))
          [] k = "classic" -> OfBool(AwsBoolValue(message.Classic))
          [] k = "cluster_type" -> OfString(AwsStringValue(message.ClusterType))
          [] k = "node_type" -> OfString(AwsStringValue(message.NodeType))
          [] k = "number_of_nodes" -> OfInt64(AwsInt64Value(message.NumberOfNodes))]

\* flattenRedshiftScheduledActionType: the three tests run in this order and
\* each one that passes replaces the map
flattenRedshiftScheduledActionType(scheduledActionType) ==
    IF scheduledActionType.res = "nil" THEN EmptyMap
    ELSE LET v == scheduledActionType.value
             m1 == IF v.ResumeCluster.set
                   THEN ClusterMap("ResumeCluster", v.ResumeCluster) ELSE EmptyMap
             m2 == IF v.PauseCluster.set
                   THEN ClusterMap("PauseCluster", v.PauseCluster) ELSE m1
         IN IF v.ResizeCluster.set THEN ResizeMap(v.ResizeCluster) ELSE m2

\* the target actions DescribeScheduledActions can hand to Read
Received ==
    { NilAction,
      [res |-> "value", value |-> NoAction],
      [res |-> "value",
       value |-> [NoAction EXCEPT !.PauseCluster =
                     [set |-> TRUE, ClusterIdentifier |-> NilString]]],
      [res |-> "value",
       value |-> [NoAction EXCEPT !.ResumeCluster =
                     [set |-> TRUE, ClusterIdentifier |-> AwsString("c1")]]],
      [res |-> "value",
       value |-> [NoAction EXCEPT !.ResizeCluster =
                     [set |-> TRUE, ClusterIdentifier |-> AwsString("c2"),
                      Classic |-> NilBool, ClusterType |-> NilString,
                      NodeType |-> AwsString("dc2.large"),
                      NumberOfNodes |-> AwsInt64(2)]]] }

\* no target action is being converted
NoConversion == [step |-> "off", configured |-> NilConfigured, expanded |-> NilAction,
                 flattened |-> EmptyMap]

----------------------------------------------------------------------------
(* The policies the handlers build *)

\* mutant: "deleting" listed among the pending states of create and update
PendingWithDeleting(o) ==
    IF o = "delete" THEN {"deleting"} ELSE pendingStates \cup {"deleting"}

Pending(o) == IF o = "delete" THEN {"deleting"} ELSE pendingStates

\* mutant: create and update wait for "available" instead of "active"
TargetAvailable(o) == IF o = "delete" THEN {} ELSE {"available"}

\* mutant: delete waits for a "deleted" status instead of for absence
TargetDeleted(o) == IF o = "delete" THEN {"deleted"} ELSE {"active"}

\* mutant: the target status is compared without regard to case
TargetFold(o) == IF o = "delete" THEN {} ELSE {"active", "Active"}

\* mutant: every policy is built with an empty target set
TargetNone(o) == {}

Target(o) == IF o = "delete" THEN {} ELSE {"active"}

\* absence counts as success exactly for a policy with no target state
AbsenceIsSuccess(o) == Target(o) = {}

\* mutant: the closure drops the lookup's error and reports "no group"
RefreshFuncSwallow(f) ==
    IF f.err # "none" \/ ~f.found THEN [res |-> "nil", state |-> "", err |-> "none"]
    ELSE IF f.status = NilStatus THEN [res |-> "panic", state |-> "", err |-> "none"]
    ELSE [res |-> "group", state |-> f.status, err |-> "none"]

\* the closure returned by resourceAwsElasticacheUserGroupStateRefreshFunc
RefreshFunc(f) ==
    IF f.err # "none" THEN [res |-> "nil", state |-> "", err |-> f.err]
    ELSE IF ~f.found THEN [res |-> "nil", state |-> "", err |-> "none"]
    ELSE IF f.status = NilStatus THEN [res |-> "panic", state |-> "", err |-> "none"]
    ELSE [res |-> "group", state |-> f.status, err |-> "none"]

Classify(o, r) ==
    IF r.err # "none" THEN "error"
    ELSE IF r.res = "nil" /\ AbsenceIsSuccess(o) THEN "absent"
    ELSE IF r.state \in Target(o) THEN "target"
    ELSE IF r.state \in Pending(o) THEN "pending"
    ELSE "unexpected"

\* the status of the last observed snapshot
LastState(h) == IF Len(h) = 0 THEN "" ELSE RefreshFunc(h[Len(h)]).state

Polling(p) == pc[p] \in {"wait", "inflight"}

----------------------------------------------------------------------------
Init ==
    /\ env = [procs |-> {1}, timeouts |-> Timeouts, lookups |-> FindResults,
              users |-> Users]
    /\ pendingStates = InitialPendingStates
    /\ op = [p \in Procs |-> "none"]
    /\ pc = [p \in Procs |-> "idle"]
    /\ timeout = [p \in Procs |-> 0]
    /\ elapsed = [p \in Procs |-> 0]
    /\ wakeAt = [p \in Procs |-> 0]
    /\ calledAt = [p \in Procs |-> 0]
    /\ inflight = [p \in Procs |-> 0]
    /\ polls = [p \in Procs |-> 0]
    /\ nCalls = [p \in Procs |-> 0]
    /\ hist = [p \in Procs |-> <<>>]
    /\ outcome = [p \in Procs |-> NoOutcome]
    /\ interrupted = [p \in Procs |-> FALSE]
    /\ ret = [p \in Procs |-> "none"]
    /\ readRan = [p \in Procs |-> FALSE]
    /\ id = [p \in Procs |-> ""]
    /\ classes = [p \in Procs |-> <<>>]
    /\ returnedAt = [p \in Procs |-> 0]
    /\ apiErr = [p \in Procs |-> "notcalled"]
    /\ req = [p \in Procs |-> NoRequest]
    /\ msg = [p \in Procs |-> {}]
    /\ attrs = [p \in Procs |-> "prior"]
    /\ redshift = NoConversion

InitConc ==
    /\ env = [procs |-> Procs, timeouts |-> ConcTimeouts, lookups |-> ConcFindResults,
              users |-> ConcUsers]
    /\ pendingStates = InitialPendingStates
    /\ op = [p \in Procs |-> "none"]
    /\ pc = [p \in Procs |-> "idle"]
    /\ timeout = [p \in Procs |-> 0]
    /\ elapsed = [p \in Procs |-> 0]
    /\ wakeAt = [p \in Procs |-> 0]
    /\ calledAt = [p \in Procs |-> 0]
    /\ inflight = [p \in Procs |-> 0]
    /\ polls = [p \in Procs |-> 0]
    /\ nCalls = [p \in Procs |-> 0]
    /\ hist = [p \in Procs |-> <<>>]
    /\ outcome = [p \in Procs |-> NoOutcome]
    /\ interrupted = [p \in Procs |-> FALSE]
    /\ ret = [p \in Procs |-> "none"]
    /\ readRan = [p \in Procs |-> FALSE]
    /\ id = [p \in Procs |-> ""]
    /\ classes = [p \in Procs |-> <<>>]
    /\ returnedAt = [p \in Procs |-> 0]
    /\ apiErr = [p \in Procs |-> "notcalled"]
    /\ req = [p \in Procs |-> NoRequest]
    /\ msg = [p \in Procs |-> {}]
    /\ attrs = [p \in Procs |-> "prior"]
    /\ redshift = NoConversion

----------------------------------------------------------------------------
(* WaitForState *)

\* mutant: Delete builds its pending list by appending to the package variable
BeginPollShared(p, o, t) ==
    /\ op' = [op EXCEPT ![p] = o]
    /\ timeout' = [timeout EXCEPT ![p] = t]
    /\ elapsed' = [elapsed EXCEPT ![p] = 0]
    /\ wakeAt' = [wakeAt EXCEPT ![p] = Delay]
    /\ polls' = [polls EXCEPT ![p] = @ + 1]
    /\ pc' = [pc EXCEPT ![p] = "wait"]
    /\ pendingStates' = IF o = "delete" THEN pendingStates \cup {"deleting"}
                                       ELSE pendingStates

\* mutant: the StateChangeConf is built without its Delay
BeginPollNoDelay(p, o, t) ==
    /\ op' = [op EXCEPT ![p] = o]
    /\ timeout' = [timeout EXCEPT ![p] = t]
    /\ elapsed' = [elapsed EXCEPT ![p] = 0]
    /\ wakeAt' = [wakeAt EXCEPT ![p] = 0]
    /\ polls' = [polls EXCEPT ![p] = @ + 1]
    /\ pc' = [pc EXCEPT ![p] = "wait"]
    /\ pendingStates' = pendingStates

\* the handler builds its StateChangeConf and calls WaitForState
BeginPoll(p, o, t) ==
    /\ op' = [op EXCEPT ![p] = o]
    /\ timeout' = [timeout EXCEPT ![p] = t]
    /\ elapsed' = [elapsed EXCEPT ![p] = 0]
    /\ wakeAt' = [wakeAt EXCEPT ![p] = Delay]
    /\ polls' = [polls EXCEPT ![p] = @ + 1]
    /\ pc' = [pc EXCEPT ![p] = "wait"]
    /\ pendingStates' = pendingStates

\* mutant: a timeout of zero or less is read as "no timeout"
TimedOutIfPositive(p) == timeout[p] > 0 /\ elapsed[p] >= timeout[p]

TimedOut(p) == elapsed[p] >= timeout[p]

\* ten seconds pass for process p
Tick(p) ==
    /\ \/ pc[p] = "wait" /\ ~TimedOut(p) /\ elapsed[p] < wakeAt[p]
       \/ pc[p] = "inflight" /\ elapsed[p] < calledAt[p] + MaxRefreshTime
    /\ elapsed' = [elapsed EXCEPT ![p] = @ + 1]
    /\ UNCHANGED <<redshift, classes, returnedAt, apiErr, req, msg, attrs, env, pendingStates, op, pc, timeout, wakeAt, calledAt,
                   inflight, polls, nCalls, hist, outcome, interrupted, ret,
                   readRan, id>>

\* mutant: refresh is invoked although the timeout has passed
RefreshCallLate(p) ==
    /\ pc[p] = "wait"
    /\ elapsed[p] >= wakeAt[p]
    /\ elapsed[p] <= timeout[p]
    /\ pc' = [pc EXCEPT ![p] = "inflight"]
    /\ inflight' = [inflight EXCEPT ![p] = @ + 1]
    /\ nCalls' = [nCalls EXCEPT ![p] = @ + 1]
    /\ calledAt' = [calledAt EXCEPT ![p] = elapsed[p]]
    /\ UNCHANGED <<redshift, classes, returnedAt, apiErr, req, msg, attrs, env, pendingStates, op, timeout, elapsed, wakeAt, polls,
                   hist, outcome, interrupted, ret, readRan, id>>

\* mutant: a second refresh is started while one is still in flight
RefreshCallOverlap(p) ==
    /\ pc[p] \in {"wait", "inflight"}
    /\ ~TimedOut(p)
    /\ elapsed[p] >= wakeAt[p]
    /\ inflight[p] < 2
    /\ pc' = [pc EXCEPT ![p] = "inflight"]
    /\ inflight' = [inflight EXCEPT ![p] = @ + 1]
    /\ nCalls' = [nCalls EXCEPT ![p] = @ + 1]
    /\ calledAt' = [calledAt EXCEPT ![p] = elapsed[p]]
    /\ UNCHANGED <<redshift, classes, returnedAt, apiErr, req, msg, attrs, env, pendingStates, op, timeout, elapsed, wakeAt, polls,
                   hist, outcome, interrupted, ret, readRan, id>>

\* mutant: after the first refresh the poll does not wait for the sleep to end
RefreshCallNoSleep(p) ==
    /\ pc[p] = "wait"
    /\ ~TimedOut(p)
    /\ nCalls[p] > 0 \/ elapsed[p] >= wakeAt[p]
    /\ pc' = [pc EXCEPT ![p] = "inflight"]
    /\ inflight' = [inflight EXCEPT ![p] = @ + 1]
    /\ nCalls' = [nCalls EXCEPT ![p] = @ + 1]
    /\ calledAt' = [calledAt EXCEPT ![p] = elapsed[p]]
    /\ UNCHANGED <<redshift, classes, returnedAt, apiErr, req, msg, attrs, env,
                   pendingStates, op, timeout, elapsed, wakeAt, polls, hist, outcome,
                   interrupted, ret, readRan, id>>

\* the delay or sleep is over: invoke refresh()
RefreshCall(p) ==
    /\ pc[p] = "wait"
    /\ ~TimedOut(p)
    /\ elapsed[p] >= wakeAt[p]
    /\ pc' = [pc EXCEPT ![p] = "inflight"]
    /\ inflight' = [inflight EXCEPT ![p] = @ + 1]
    /\ nCalls' = [nCalls EXCEPT ![p] = @ + 1]
    /\ calledAt' = [calledAt EXCEPT ![p] = elapsed[p]]
    /\ UNCHANGED <<redshift, classes, returnedAt, apiErr, req, msg, attrs, env, pendingStates, op, timeout, elapsed, wakeAt, polls,
                   hist, outcome, interrupted, ret, readRan, id>>

\* refresh() returns what the lookup f gave; classify it
RefreshReturn(p, f) ==
    LET r == RefreshFunc(f)
        c == Classify(op[p], r)
    IN
    /\ pc[p] = "inflight"
    /\ inflight' = [inflight EXCEPT ![p] = @ - 1]
    /\ hist' = [hist EXCEPT ![p] = Append(@, f)]
    /\ classes' = [classes EXCEPT ![p] = Append(@, IF r.res = "panic" THEN "panic" ELSE c)]
    /\ returnedAt' = [returnedAt EXCEPT ![p] = elapsed[p]]
    /\ IF r.res = "panic"
       THEN /\ pc' = [pc EXCEPT ![p] = "done"]
            /\ ret' = [ret EXCEPT ![p] = "panic"]
            /\ UNCHANGED <<outcome, wakeAt>>
       ELSE /\ ret' = ret
            /\ CASE c = "error" ->
                      /\ outcome' = [outcome EXCEPT ![p] =
                             [kind |-> "RefreshError", state |-> r.state, err |-> r.err]]
                      /\ pc' = [pc EXCEPT ![p] = "polled"]
                      /\ wakeAt' = wakeAt
                 [] c \in {"absent", "target"} ->
                      /\ outcome' = [outcome EXCEPT ![p] =
                             [kind |-> "success", state |-> r.state, err |-> "none"]]
                      /\ pc' = [pc EXCEPT ![p] = "polled"]
                      /\ wakeAt' = wakeAt
                 [] c = "pending" ->
                      /\ wakeAt' = [wakeAt EXCEPT ![p] = elapsed[p] + MinTimeout]
                      /\ pc' = [pc EXCEPT ![p] = "wait"]
                      /\ outcome' = outcome
                 [] c = "unexpected" ->
                      /\ outcome' = [outcome EXCEPT ![p] =
                             [kind |-> "UnexpectedStateError", state |-> r.state,
                              err |-> "none"]]
                      /\ pc' = [pc EXCEPT ![p] = "polled"]
                      /\ wakeAt' = wakeAt
    /\ UNCHANGED <<redshift, apiErr, req, msg, attrs, env, pendingStates, op, timeout, elapsed, calledAt, polls,
                   nCalls, interrupted, readRan, id>>

\* mutant: a timeout is reported only once a snapshot has been observed
PollTimeoutNeedsSnapshot(p) ==
    /\ pc[p] = "wait"
    /\ TimedOut(p)
    /\ Len(hist[p]) > 0
    /\ outcome' = [outcome EXCEPT ![p] =
           [kind |-> "TimeoutError", state |-> LastState(hist[p]), err |-> "none"]]
    /\ pc' = [pc EXCEPT ![p] = "polled"]
    /\ UNCHANGED <<redshift, classes, returnedAt, apiErr, req, msg, attrs, env,
                   pendingStates, op, timeout, elapsed, wakeAt, calledAt, inflight,
                   polls, nCalls, hist, interrupted, ret, readRan, id>>

\* the timeout has passed: report it with the last observed snapshot
PollTimeout(p) ==
    /\ pc[p] = "wait"
    /\ TimedOut(p)
    /\ outcome' = [outcome EXCEPT ![p] =
           [kind |-> "TimeoutError", state |-> LastState(hist[p]), err |-> "none"]]
    /\ pc' = [pc EXCEPT ![p] = "polled"]
    /\ UNCHANGED <<redshift, classes, returnedAt, apiErr, req, msg, attrs, env, pendingStates, op, timeout, elapsed, wakeAt, calledAt,
                   inflight, polls, nCalls, hist, interrupted, ret, readRan, id>>

\* the user cancels the run while the poll sleeps between two refreshes;
\* WaitForState() is called without any cancellation signal
Interrupt(p) ==
    /\ pc[p] = "wait"
    /\ nCalls[p] > 0
    /\ ~interrupted[p]
    /\ interrupted' = [interrupted EXCEPT ![p] = TRUE]
    /\ UNCHANGED <<redshift, classes, returnedAt, apiErr, req, msg, attrs, env, pendingStates, op, pc, timeout, elapsed, wakeAt,
                   calledAt, inflight, polls, nCalls, hist, outcome, ret,
                   readRan, id>>

----------------------------------------------------------------------------
(* The handlers *)

Done(p, r) ==
    /\ pc' = [pc EXCEPT ![p] = "done"]
    /\ ret' = [ret EXCEPT ![p] = r]

\* the handler returns an error whose message holds the given parts
Fail(p, parts) ==
    /\ Done(p, "error")
    /\ msg' = [msg EXCEPT ![p] = parts]

\* what the error of a failed poll holds: the last status for a timeout or an
\* unexpected state, the refresh error otherwise
PollErrorParts(oc) ==
    IF oc.kind \in {"TimeoutError", "UnexpectedStateError"} THEN {"status"} ELSE {"cause"}

\* resourceAwsElasticacheUserGroupCreate up to WaitForState
Create(p, t, e) ==
    /\ p \in env.procs
    /\ pc[p] = "idle"
    /\ apiErr' = [apiErr EXCEPT ![p] = IF e THEN "error" ELSE "none"]
    /\ IF e
       THEN /\ Fail(p, {"cause"})
            /\ op' = [op EXCEPT ![p] = "create"]
            /\ UNCHANGED <<pendingStates, timeout, elapsed, wakeAt, polls, id>>
       ELSE /\ id' = [id EXCEPT ![p] = "group"]
            /\ BeginPoll(p, "create", t)
            /\ UNCHANGED <<ret, msg>>
    /\ UNCHANGED <<redshift, classes, returnedAt, req, attrs, env, calledAt, inflight,
                   nCalls, hist, outcome, interrupted, readRan>>

\* mutant: the two set differences are taken the wrong way round
UpdateSwapped(p, t, o, n, e) ==
    LET usersRemove == n \ o
        usersAdd == o \ n
        hasChange == Cardinality(usersAdd) > 0 \/ Cardinality(usersRemove) > 0
    IN
    /\ p \in env.procs
    /\ pc[p] = "idle"
    /\ id' = [id EXCEPT ![p] = "group"]
    /\ req' = [req EXCEPT ![p] = [old |-> o, new |-> n, add |-> usersAdd,
                                  remove |-> usersRemove, sent |-> hasChange]]
    /\ IF ~hasChange
       THEN /\ pc' = [pc EXCEPT ![p] = "tags"]
            /\ op' = [op EXCEPT ![p] = "update"]
            /\ UNCHANGED <<pendingStates, timeout, elapsed, wakeAt, polls, ret, msg,
                           apiErr>>
       ELSE IF e
       THEN /\ Fail(p, {"id", "cause"})
            /\ op' = [op EXCEPT ![p] = "update"]
            /\ apiErr' = [apiErr EXCEPT ![p] = "error"]
            /\ UNCHANGED <<pendingStates, timeout, elapsed, wakeAt, polls>>
       ELSE /\ BeginPoll(p, "update", t)
            /\ apiErr' = [apiErr EXCEPT ![p] = "none"]
            /\ UNCHANGED <<ret, msg>>
    /\ UNCHANGED <<redshift, classes, returnedAt, attrs, env, calledAt, inflight,
                   nCalls, hist, outcome, interrupted, readRan>>

\* resourceAwsElasticacheUserGroupUpdate up to WaitForState, for a group that
\* is in the managed state; o and n are the old and new user_ids
Update(p, t, o, n, e) ==
    LET usersRemove == o \ n
        usersAdd == n \ o
        hasChange == Cardinality(usersAdd) > 0 \/ Cardinality(usersRemove) > 0
    IN
    /\ p \in env.procs
    /\ pc[p] = "idle"
    /\ id' = [id EXCEPT ![p] = "group"]
    /\ req' = [req EXCEPT ![p] = [old |-> o, new |-> n, add |-> usersAdd,
                                  remove |-> usersRemove, sent |-> hasChange]]
    /\ IF ~hasChange
       THEN /\ pc' = [pc EXCEPT ![p] = "tags"]
            /\ op' = [op EXCEPT ![p] = "update"]
            /\ UNCHANGED <<pendingStates, timeout, elapsed, wakeAt, polls, ret, msg,
                           apiErr>>
       ELSE IF e
       THEN /\ Fail(p, {"id", "cause"})
            /\ op' = [op EXCEPT ![p] = "update"]
            /\ apiErr' = [apiErr EXCEPT ![p] = "error"]
            /\ UNCHANGED <<pendingStates, timeout, elapsed, wakeAt, polls>>
       ELSE /\ BeginPoll(p, "update", t)
            /\ apiErr' = [apiErr EXCEPT ![p] = "none"]
            /\ UNCHANGED <<ret, msg>>
    /\ UNCHANGED <<redshift, classes, returnedAt, attrs, env, calledAt, inflight,
                   nCalls, hist, outcome, interrupted, readRan>>

\* resourceAwsElasticacheUserGroupDelete up to WaitForState, for a group that
\* is in the managed state
Delete(p, t, e) ==
    /\ p \in env.procs
    /\ pc[p] = "idle"
    /\ id' = [id EXCEPT ![p] = "group"]
    /\ apiErr' = [apiErr EXCEPT ![p] = e]
    /\ IF e # "none" /\ e # "UserGroupNotFoundFault"
       THEN /\ Fail(p, {"cause"})
            /\ op' = [op EXCEPT ![p] = "delete"]
            /\ UNCHANGED <<pendingStates, timeout, elapsed, wakeAt, polls>>
       ELSE /\ BeginPoll(p, "delete", t)
            /\ UNCHANGED <<ret, msg>>
    /\ UNCHANGED <<redshift, classes, returnedAt, req, attrs, env, calledAt, inflight,
                   nCalls, hist, outcome, interrupted, readRan>>

\* mutant: the handler goes on to its last steps whatever the poll returned
AfterPollIgnoreErr(p) ==
    /\ pc[p] = "polled"
    /\ op[p] \in {"create", "update"}
    /\ pc' = [pc EXCEPT ![p] = IF op[p] = "update" THEN "tags" ELSE "read"]
    /\ UNCHANGED <<ret, msg>>
    /\ UNCHANGED <<redshift, classes, returnedAt, apiErr, req, attrs, env,
                   pendingStates, op, timeout, elapsed, wakeAt, calledAt, inflight,
                   polls, nCalls, hist, outcome, interrupted, readRan, id>>

\* Create and Update after WaitForState returned
AfterPoll(p) ==
    /\ pc[p] = "polled"
    /\ op[p] \in {"create", "update"}
    /\ IF outcome[p].kind # "success"
       THEN Fail(p, PollErrorParts(outcome[p])
                      \cup (IF op[p] = "update" THEN {"id"} ELSE {}))
       ELSE /\ pc' = [pc EXCEPT ![p] = IF op[p] = "update" THEN "tags" ELSE "read"]
            /\ UNCHANGED <<ret, msg>>
    /\ UNCHANGED <<redshift, classes, returnedAt, apiErr, req, attrs, env,
                   pendingStates, op, timeout, elapsed, wakeAt, calledAt, inflight,
                   polls, nCalls, hist, outcome, interrupted, readRan, id>>

\* Update: the tags_all change, made in the commercial partition only
UpdateTags(p, tagsChange, tagsErr) ==
    /\ pc[p] = "tags"
    /\ IF tagsChange /\ tagsErr
       THEN Fail(p, {"arn", "cause"})
       ELSE /\ pc' = [pc EXCEPT ![p] = "read"]
            /\ UNCHANGED <<ret, msg>>
    /\ UNCHANGED <<redshift, classes, returnedAt, apiErr, req, attrs, env,
                   pendingStates, op, timeout, elapsed, wakeAt, calledAt, inflight,
                   polls, nCalls, hist, outcome, interrupted, readRan, id>>

\* mutant: after the poll Delete forgives only the not-found error
AfterPollDeleteStrict(p) ==
    /\ pc[p] = "polled"
    /\ op[p] = "delete"
    /\ IF outcome[p].kind # "success"
          /\ outcome[p].err \notin {"UserGroupNotFoundFault"}
       THEN Fail(p, PollErrorParts(outcome[p]))
       ELSE /\ Done(p, "ok")
            /\ msg' = msg
    /\ UNCHANGED <<redshift, classes, returnedAt, apiErr, req, attrs, env,
                   pendingStates, op, timeout, elapsed, wakeAt, calledAt, inflight,
                   polls, nCalls, hist, outcome, interrupted, readRan, id>>

\* Delete after WaitForState returned
AfterPollDelete(p) ==
    /\ pc[p] = "polled"
    /\ op[p] = "delete"
    /\ IF outcome[p].kind # "success"
          /\ outcome[p].err \notin {"UserGroupNotFoundFault", "InvalidUserGroupStateFault"}
       THEN Fail(p, PollErrorParts(outcome[p]))
       ELSE /\ Done(p, "ok")
            /\ msg' = msg
    /\ UNCHANGED <<redshift, classes, returnedAt, apiErr, req, attrs, env,
                   pendingStates, op, timeout, elapsed, wakeAt, calledAt, inflight,
                   polls, nCalls, hist, outcome, interrupted, readRan, id>>

\* resourceAwsElasticacheUserGroupRead; f is what the lookup returns, tagsErr
\* whether listing or setting the tags fails
Read(p, f, isNew, tagsErr) ==
    /\ pc[p] = "read"
    /\ readRan' = [readRan EXCEPT ![p] = TRUE]
    /\ IF ~isNew /\ f.err \in {"NotFoundError", "UserGroupNotFoundFault"}
       THEN /\ id' = [id EXCEPT ![p] = ""]
            /\ Done(p, "ok")
            /\ UNCHANGED <<msg, attrs>>
       ELSE IF f.err # "none" /\ f.err # "UserGroupNotFoundFault"
       THEN /\ Fail(p, {"id", "cause"})
            /\ UNCHANGED <<id, attrs>>
       ELSE IF ~f.found
       THEN /\ Done(p, "panic")
            /\ UNCHANGED <<id, msg, attrs>>
       ELSE /\ attrs' = [attrs EXCEPT ![p] = "read"]
            /\ id' = id
            /\ IF tagsErr
               THEN Fail(p, {"arn", "cause"})
               ELSE /\ Done(p, "ok")
                    /\ msg' = msg
    /\ UNCHANGED <<redshift, classes, returnedAt, apiErr, req, env, pendingStates, op,
                   timeout, elapsed, wakeAt, calledAt, inflight, polls, nCalls, hist,
                   outcome, interrupted>>

----------------------------------------------------------------------------
Next ==
    \E p \in Procs :
        \/ \E t \in env.timeouts, e \in BOOLEAN : Create(p, t, e)
        \/ \E t \in env.timeouts, o \in SUBSET env.users, n \in SUBSET env.users, e \in BOOLEAN :
               Update(p, t, o, n, e)
        \/ \E t \in env.timeouts, e \in {"none", "UserGroupNotFoundFault", "InternalFailure"} :
               Delete(p, t, e)
        \/ Tick(p)
        \/ RefreshCall(p)
        \/ \E f \in env.lookups : RefreshReturn(p, f)
        \/ PollTimeout(p)
        \/ Interrupt(p)
        \/ AfterPoll(p)
        \/ AfterPollDelete(p)
        \/ \E c \in BOOLEAN, e \in BOOLEAN : UpdateTags(p, c, e)
        \/ \E f \in env.lookups, isNew \in BOOLEAN, e \in BOOLEAN : Read(p, f, isNew, e)

Spec == Init /\ [][Next]_vars

\* time passes, a due refresh is invoked, an invoked refresh returns and a
\* passed timeout is noticed: WaitForState runs on, and so does the lookup
Fairness ==
    \A p \in Procs :
        /\ WF_vars(Tick(p))
        /\ WF_vars(RefreshCall(p))
        /\ WF_vars(\E f \in env.lookups : RefreshReturn(p, f))
        /\ WF_vars(PollTimeout(p))

SpecLive == Init /\ [][Next]_vars /\ Fairness

SpecConc == InitConc /\ [][Next]_vars

----------------------------------------------------------------------------
(* Converting the Redshift target action *)

handlerVars == <<env, pendingStates, op, pc, timeout, elapsed, wakeAt, calledAt,
                 inflight, polls, nCalls, hist, outcome, interrupted, ret, readRan,
                 id, classes, returnedAt, apiErr, req, msg, attrs>>

\* a scheduled action with some configured target_action; no user-group
\* handler runs
InitRedshift ==
    /\ env = [procs |-> {}, timeouts |-> {}, lookups |-> {}, users |-> {}]
    /\ pendingStates = InitialPendingStates
    /\ op = [p \in Procs |-> "none"]
    /\ pc = [p \in Procs |-> "idle"]
    /\ timeout = [p \in Procs |-> 0]
    /\ elapsed = [p \in Procs |-> 0]
    /\ wakeAt = [p \in Procs |-> 0]
    /\ calledAt = [p \in Procs |-> 0]
    /\ inflight = [p \in Procs |-> 0]
    /\ polls = [p \in Procs |-> 0]
    /\ nCalls = [p \in Procs |-> 0]
    /\ hist = [p \in Procs |-> <<>>]
    /\ outcome = [p \in Procs |-> NoOutcome]
    /\ interrupted = [p \in Procs |-> FALSE]
    /\ ret = [p \in Procs |-> "none"]
    /\ readRan = [p \in Procs |-> FALSE]
    /\ id = [p \in Procs |-> ""]
    /\ classes = [p \in Procs |-> <<>>]
    /\ returnedAt = [p \in Procs |-> 0]
    /\ apiErr = [p \in Procs |-> "notcalled"]
    /\ req = [p \in Procs |-> NoRequest]
    /\ msg = [p \in Procs |-> {}]
    /\ attrs = [p \in Procs |-> "prior"]
    /\ \E c \in Configured :
           redshift = [step |-> "configured", configured |-> c,
                       expanded |-> NilAction, flattened |-> EmptyMap]

\* Create and Update build their request from d.Get("target_action")
ExpandTargetAction ==
    LET e == expandRedshiftScheduledActionTargetAction(redshift.configured) IN
    /\ redshift.step = "configured"
    /\ redshift' = [redshift EXCEPT
                      !.expanded = e,
                      !.step = IF e.res = "panic" THEN "panicked" ELSE "expanded"]
    /\ UNCHANGED handlerVars

\* Read sets target_action from the target action that was sent
FlattenSent ==
    /\ redshift.step = "expanded"
    /\ redshift' = [redshift EXCEPT
                      !.flattened = flattenRedshiftScheduledActionType(redshift.expanded),
                      !.step = "flattened"]
    /\ UNCHANGED handlerVars

\* Read sets target_action from whatever target action the service describes
FlattenReceived(s) ==
    /\ redshift.step = "configured"
    /\ redshift' = [redshift EXCEPT
                      !.expanded = s,
                      !.flattened = flattenRedshiftScheduledActionType(s),
                      !.step = "read"]
    /\ UNCHANGED handlerVars

NextRedshift ==
    \/ ExpandTargetAction
    \/ FlattenSent
    \/ \E s \in Received : FlattenReceived(s)

SpecRedshift == InitRedshift /\ [][NextRedshift]_vars

----------------------------------------------------------------------------
(* The policies as the handlers write them, for stating the properties *)

CreatePending == {"creating", "modifying"}

WrittenPending(o) == IF o = "delete" THEN {"deleting"} ELSE CreatePending

WrittenTarget(o) == IF o = "delete" THEN {} ELSE {"active"}

Handlers == {"create", "update", "delete"}

\* the lookup found a group with status s
HasStatus(f, S) == f.err = "none" /\ f.found /\ f.status \in S

\* the lookup found no group and gave no error
IsAbsent(f) == f.err = "none" /\ ~f.found

\* the status label of the snapshot a lookup result gives
StatusOf(f) == IF f.err = "none" /\ f.found THEN f.status ELSE ""

LastStatus(h) == IF Len(h) = 0 THEN "" ELSE StatusOf(h[Len(h)])

AllPending(o, h, n) == \A i \in 1..n : HasStatus(h[i], WrittenPending(o))

Returned(p) == outcome[p].kind # "none"

----------------------------------------------------------------------------
\* C1: when every status of the refresh sequence is pending (creating,
\* modifying) except the last, which is the target (active), the poll returns
\* success carrying the last snapshot and has called refresh exactly once per
\* element of the sequence.
C1_SuccessAfterPending ==
    \A p \in Procs :
        ( /\ op[p] \in {"create", "update"}
          /\ Len(hist[p]) > 0
          /\ AllPending(op[p], hist[p], Len(hist[p]) - 1)
          /\ HasStatus(hist[p][Len(hist[p])], {"active"}) )
        => /\ outcome[p] = [kind |-> "success", state |-> "active", err |-> "none"]
           /\ nCalls[p] = Len(hist[p])
           /\ ~Polling(p)

\* creating, creating, active: success(active) after exactly three calls
C1_Witness ==
    \E p \in Procs :
        /\ op[p] = "create"
        /\ Len(hist[p]) = 3
        /\ HasStatus(hist[p][1], {"creating"})
        /\ HasStatus(hist[p][2], {"creating"})
        /\ HasStatus(hist[p][3], {"active"})
        /\ outcome[p].kind = "success"
        /\ nCalls[p] = 3

\* C2: a refresh that returns a status in neither the pending nor the target
\* set ends the poll at once with UnexpectedStateError, and refresh is not
\* called again.
C2_UnexpectedAborts ==
    \A p \in Procs : \A i \in 1..Len(hist[p]) :
        ( /\ op[p] \in Handlers
          /\ HasStatus(hist[p][i],
                 Statuses \ (WrittenPending(op[p]) \cup WrittenTarget(op[p]))) )
        => /\ i = Len(hist[p])
           /\ nCalls[p] = Len(hist[p])
           /\ outcome[p] = [kind |-> "UnexpectedStateError",
                            state |-> hist[p][i].status, err |-> "none"]
           /\ ~Polling(p)

\* the delete poll sees deleting, then active
C2_Witness ==
    \E p \in Procs :
        /\ op[p] = "delete"
        /\ Len(hist[p]) = 2
        /\ HasStatus(hist[p][1], {"deleting"})
        /\ HasStatus(hist[p][2], {"active"})
        /\ outcome[p].kind = "UnexpectedStateError"

\* C3: with refresh always pending the poll returns TimeoutError once the
\* elapsed time has reached the timeout, the error carries the last observed
\* snapshot, and refresh is called neither at or after the timeout nor after
\* the error.
C3_TimeoutPending ==
    \A p \in Procs :
        /\ outcome[p].kind = "TimeoutError"
             => /\ elapsed[p] >= timeout[p]
                /\ outcome[p].state = LastStatus(hist[p])
                /\ nCalls[p] = Len(hist[p])
                /\ ~Polling(p)
        /\ pc[p] = "inflight" => calledAt[p] < timeout[p]
        /\ (Returned(p) /\ AllPending(op[p], hist[p], Len(hist[p])))
             => outcome[p].kind = "TimeoutError"
        /\ (pc[p] = "wait" /\ elapsed[p] >= timeout[p])
             => ENABLED PollTimeout(p) /\ ~ENABLED Tick(p) /\ ~ENABLED RefreshCall(p)

C3_Witness ==
    \E p \in Procs :
        /\ outcome[p].kind = "TimeoutError"
        /\ timeout[p] > Delay
        /\ Len(hist[p]) >= 2
        /\ AllPending(op[p], hist[p], Len(hist[p]))
        /\ outcome[p].state = "modifying"

\* C4: an error returned by the lookup inside refresh ends the poll at once
\* with a failure carrying that error; no further refresh is called and the
\* error never becomes a success or a retry.
C4_RefreshErrorTerminal ==
    \A p \in Procs : \A i \in 1..Len(hist[p]) :
        hist[p][i].err # "none"
        => /\ i = Len(hist[p])
           /\ nCalls[p] = Len(hist[p])
           /\ outcome[p] = [kind |-> "RefreshError", state |-> "",
                            err |-> hist[p][i].err]
           /\ ~Polling(p)

C4_Witness ==
    \E p \in Procs :
        /\ Len(hist[p]) = 2
        /\ HasStatus(hist[p][1], {"creating"})
        /\ hist[p][2].err = "InternalFailure"
        /\ outcome[p].kind = "RefreshError"

\* C5: in the delete poll, whose policy enables absence-is-success, a first
\* refresh that reports the group as not found makes the poll return success
\* after that single call.
C5_AbsenceFirstCall ==
    \A p \in Procs :
        (op[p] = "delete" /\ Len(hist[p]) >= 1 /\ IsAbsent(hist[p][1]))
        => /\ outcome[p] = [kind |-> "success", state |-> "", err |-> "none"]
           /\ nCalls[p] = 1
           /\ Len(hist[p]) = 1
           /\ ~Polling(p)

C5_Witness ==
    \E p \in Procs :
        /\ op[p] = "delete"
        /\ Len(hist[p]) = 1
        /\ IsAbsent(hist[p][1])
        /\ outcome[p].kind = "success"
        /\ pc[p] = "done"
        /\ ret[p] = "ok"

\* C6: a create or update poll succeeds only on a found group whose status is
\* active, never on a not-found result; a delete poll whose last refresh
\* reports not found succeeds.
C6_AbsenceOnlyForDelete ==
    \A p \in Procs :
        /\ (op[p] \in {"create", "update"} /\ outcome[p].kind = "success")
             => /\ Len(hist[p]) > 0
                /\ HasStatus(hist[p][Len(hist[p])], {"active"})
        /\ (op[p] \in {"create", "update"} /\ Len(hist[p]) > 0
              /\ IsAbsent(hist[p][Len(hist[p])]))
             => outcome[p].kind # "success"
        /\ (op[p] = "delete" /\ Len(hist[p]) > 0 /\ IsAbsent(hist[p][Len(hist[p])]))
             => outcome[p].kind = "success"

C6_Witness ==
    \E p \in Procs :
        /\ op[p] = "update"
        /\ Len(hist[p]) = 2
        /\ IsAbsent(hist[p][2])
        /\ Returned(p)
        /\ outcome[p].kind # "success"
        /\ ret[p] = "error"

\* C7: once a cancellation has been requested during a sleep between
\* refreshes, the poll makes no further refresh call.
C7_CancelStopsRefresh ==
    [][\A p \in Procs : interrupted[p] => nCalls'[p] = nCalls[p]]_vars

\* C8: a poll whose timeout is zero or negative reports the timeout on its
\* first check: no time passes, refresh is never called and the only step the
\* poll can take is to return TimeoutError.
C8_NonPositiveTimeout ==
    \A p \in Procs :
        (polls[p] >= 1 /\ timeout[p] <= 0)
        => /\ nCalls[p] = 0
           /\ elapsed[p] = 0
           /\ hist[p] = <<>>
           /\ outcome[p].kind \in {"none", "TimeoutError"}
           /\ pc[p] = "wait" => (ENABLED PollTimeout(p) /\ ~ENABLED Tick(p))
           /\ pc[p] # "inflight"

C8_Witness ==
    \E p \in Procs :
        /\ polls[p] = 1
        /\ timeout[p] <= 0
        /\ outcome[p].kind = "TimeoutError"
        /\ ret[p] = "error"

\* C9: at most one refresh call is in flight per poll, every refresh starts
\* after the previous one returned, and a handler starts at most one poll.
C9_OneRefreshInFlight ==
    \A p \in Procs :
        /\ inflight[p] \in {0, 1}
        /\ inflight[p] = 1 <=> pc[p] = "inflight"
        /\ nCalls[p] = Len(hist[p]) + inflight[p]
        /\ polls[p] <= 1

C9_Witness ==
    \E p \in Procs :
        /\ pc[p] = "inflight"
        /\ nCalls[p] = 2
        /\ Len(hist[p]) = 1

\* everything one handler invocation owns
Local(p) ==
    <<op[p], pc[p], timeout[p], elapsed[p], wakeAt[p], calledAt[p], inflight[p],
      polls[p], nCalls[p], hist[p], outcome[p], interrupted[p], ret[p],
      readRan[p], id[p], classes[p], returnedAt[p], apiErr[p], req[p], msg[p],
      attrs[p]>>

\* the outcome of a poll that ran alone and observed the lookups h
SoloOutcome(o, h) ==
    LET f == h[Len(h)] IN
    IF Len(h) = 0 THEN [kind |-> "TimeoutError", state |-> "", err |-> "none"]
    ELSE IF f.err # "none" THEN [kind |-> "RefreshError", state |-> "", err |-> f.err]
    ELSE IF IsAbsent(f) /\ o = "delete"
        THEN [kind |-> "success", state |-> "", err |-> "none"]
    ELSE IF StatusOf(f) \in WrittenTarget(o)
        THEN [kind |-> "success", state |-> StatusOf(f), err |-> "none"]
    ELSE IF StatusOf(f) \in WrittenPending(o)
        THEN [kind |-> "TimeoutError", state |-> StatusOf(f), err |-> "none"]
    ELSE [kind |-> "UnexpectedStateError", state |-> StatusOf(f), err |-> "none"]

\* C10: concurrent polls share no mutable state: no step changes the state of
\* two invocations, the shared pending-state list is never modified, and each
\* outcome and refresh count is the one its own lookups give when run alone.
C10_Independent ==
    /\ [][ /\ pendingStates' = pendingStates
           /\ \A p \in Procs : \A q \in Procs \ {p} :
                  Local(p)' # Local(p) => Local(q)' = Local(q) ]_vars
    /\ [](\A p \in Procs :
              Returned(p) => /\ outcome[p] = SoloOutcome(op[p], hist[p])
                             /\ nCalls[p] = Len(hist[p]))

C10_Witness ==
    /\ op[1] = "create"
    /\ op[2] = "delete"
    /\ nCalls[1] = 1
    /\ pc[1] = "inflight"
    /\ nCalls[2] = 1
    /\ outcome[2].kind = "TimeoutError"
    /\ outcome[2].state = "deleting"

----------------------------------------------------------------------------
\* the class exact, case-sensitive membership in the written sets gives
WrittenClass(o, s) ==
    IF s \in WrittenTarget(o) THEN "target"
    ELSE IF s \in WrittenPending(o) THEN "pending"
    ELSE "unexpected"

\* C11: every status label a refresh returns is put in exactly one of the
\* classes pending, target and unexpected, by exact case-sensitive membership
\* in the policy's sets, which are disjoint in each of the three policies.
C11_ExactClassification ==
    \A p \in Procs :
        op[p] \in Handlers =>
            /\ Pending(op[p]) \cap Target(op[p]) = {}
            /\ Len(classes[p]) = Len(hist[p])
            /\ \A i \in 1..Len(hist[p]) :
                   HasStatus(hist[p][i], Statuses) =>
                       /\ classes[p][i] \in {"pending", "target", "unexpected"}
                       /\ classes[p][i] = WrittenClass(op[p], hist[p][i].status)

\* the label "Active" differs from the target "active" in case only
C11_Witness ==
    \E p \in Procs :
        /\ op[p] = "create"
        /\ Len(hist[p]) = 2
        /\ HasStatus(hist[p][1], {"modifying"})
        /\ classes[p][1] = "pending"
        /\ HasStatus(hist[p][2], {"Active"})
        /\ classes[p][2] = "unexpected"

\* C12: no refresh is called before the initial delay of 30 seconds (three
\* units) has passed since the poll began, in the create, update and delete
\* polls alike.
C12_InitialDelay ==
    \A p \in Procs :
        /\ nCalls[p] >= 1 => (calledAt[p] >= 3 /\ elapsed[p] >= 3)
        /\ (Polling(p) /\ elapsed[p] < 3) => (nCalls[p] = 0 /\ hist[p] = <<>>)
        /\ (pc[p] = "wait" /\ nCalls[p] = 0 /\ elapsed[p] < 3)
             => ~ENABLED RefreshCall(p)

\* the first refresh of a delete poll, called when the delay has just passed
C12_Witness ==
    \E p \in Procs :
        /\ op[p] = "delete"
        /\ pc[p] = "inflight"
        /\ nCalls[p] = 1
        /\ calledAt[p] = Delay
        /\ elapsed[p] = Delay

\* C13: after a refresh returned a pending status the next refresh is called
\* no sooner than min_timeout (10 seconds, one unit) later, so two consecutive
\* refresh calls are at least min_timeout apart.
C13_MinInterval ==
    \A p \in Procs :
        /\ (pc[p] = "inflight" /\ nCalls[p] >= 2) => calledAt[p] - returnedAt[p] >= 1
        /\ (pc[p] # "inflight" /\ nCalls[p] >= 1) => returnedAt[p] >= calledAt[p]
        /\ (pc[p] = "wait" /\ nCalls[p] >= 1 /\ elapsed[p] - returnedAt[p] < 1)
             => ~ENABLED RefreshCall(p)

\* a third refresh in flight, called one interval after the second returned
C13_Witness ==
    \E p \in Procs :
        /\ pc[p] = "inflight"
        /\ nCalls[p] = 3
        /\ HasStatus(hist[p][2], CreatePending)
        /\ calledAt[p] - returnedAt[p] = MinTimeout

\* C14: whenever a poll ends in failure, the error the handler returns holds
\* the resource identifier and the last known status.
C14_ErrorNamesIdAndStatus ==
    \A p \in Procs :
        (op[p] \in Handlers /\ Returned(p) /\ outcome[p].kind # "success"
           /\ pc[p] = "done" /\ ret[p] = "error")
        => {"id", "status"} \subseteq msg[p]

\* the handler is past its poll and on its way to, or past, the final Read
PastPoll(p) == pc[p] \in {"tags", "read"} \/ readRan[p]

\* C15 as stated: in Create and Update the final Read runs only after the poll
\* returned success; a failed API call starts no poll; a failed poll makes the
\* handler return an error without running Read or setting any attribute.
C15_ReadOnlyAfterPollSuccess ==
    \A p \in Procs :
        op[p] \in {"create", "update"}
        => /\ readRan[p] => outcome[p].kind = "success"
           /\ apiErr[p] = "error" => polls[p] = 0
           /\ (Returned(p) /\ outcome[p].kind # "success")
              => ~readRan[p] /\ attrs[p] = "prior"

\* C15, amended: in Create and Update, when a poll was started the final Read
\* (and the tags step before it) runs only after the poll returned success;
\* Read runs without a poll only in an Update whose user_ids did not change;
\* a failed API call starts no poll and ends the handler with an error; a
\* failed poll makes the handler return an error without running Read or
\* setting any attribute.
C15_ReadAfterStartedPollSuccess ==
    \A p \in Procs :
        op[p] \in {"create", "update"}
        => /\ (polls[p] >= 1 /\ PastPoll(p)) => outcome[p].kind = "success"
           /\ (polls[p] = 0 /\ PastPoll(p)) => (op[p] = "update" /\ ~req[p].sent)
           /\ apiErr[p] = "error"
              => /\ polls[p] = 0 /\ pc[p] = "done" /\ ret[p] = "error"
                 /\ ~readRan[p] /\ attrs[p] = "prior"
           /\ (Returned(p) /\ outcome[p].kind # "success")
              => /\ pc[p] \in {"polled", "done"}
                 /\ pc[p] = "done" => ret[p] = "error"
                 /\ ~readRan[p] /\ attrs[p] = "prior"

\* a create whose poll timed out returned an error and never ran Read
C15_Witness ==
    \E p \in Procs :
        /\ op[p] = "create"
        /\ polls[p] = 1
        /\ outcome[p].kind = "TimeoutError"
        /\ pc[p] = "done"
        /\ ret[p] = "error"
        /\ ~readRan[p]
        /\ attrs[p] = "prior"

\* C16: every poll with a finite timeout eventually yields an outcome, whatever
\* the refresh function returns (as long as it returns: a refresh that panics
\* on a group without status ends the process instead), also when it reports
\* a pending status for ever; the outcome, once produced, is never replaced
\* and no refresh is called after it.
C16_PollTerminates ==
    /\ \A p \in Procs : Polling(p) ~> (Returned(p) \/ ret[p] = "panic")
    /\ [][\A p \in Procs :
            Returned(p) => /\ outcome'[p] = outcome[p]
                           /\ nCalls'[p] = nCalls[p]
                           /\ hist'[p] = hist[p]
                           /\ ~Polling(p)']_vars

\* a delete whose group stayed "deleting" through three refreshes timed out
C16_Witness ==
    \E p \in Procs :
        /\ op[p] = "delete"
        /\ timeout[p] = MaxTimeout
        /\ Len(hist[p]) = 3
        /\ \A i \in 1..3 : HasStatus(hist[p][i], {"deleting"})
        /\ outcome[p] = [kind |-> "TimeoutError", state |-> "deleting", err |-> "none"]
        /\ nCalls[p] = 3

\* the errors of a poll that Delete takes for a finished deletion
DeleteForgiven == {"UserGroupNotFoundFault", "InvalidUserGroupStateFault"}

\* C17: Delete returns the error of DeleteUserGroup without polling unless the
\* error is user-group-not-found; otherwise it polls with pending {deleting}
\* and no target, returns success when the poll succeeds or fails with
\* user-group-not-found or invalid-user-group-state, and returns an error for
\* every other poll failure, a group still reported active among them.
C17_DeleteHandler ==
    \A p \in Procs :
        op[p] = "delete"
        => /\ apiErr[p] \notin {"none", "UserGroupNotFoundFault"}
              => /\ polls[p] = 0 /\ nCalls[p] = 0 /\ ~Returned(p)
                 /\ pc[p] = "done" /\ ret[p] = "error"
           /\ apiErr[p] \in {"none", "UserGroupNotFoundFault"}
              => /\ polls[p] = 1
                 /\ Pending(op[p]) = {"deleting"}
                 /\ Target(op[p]) = {}
           /\ (pc[p] = "done" /\ polls[p] = 1 /\ ret[p] # "panic")
              => /\ Returned(p)
                 /\ ret[p] = "ok" <=> \/ outcome[p].kind = "success"
                                      \/ outcome[p].err \in DeleteForgiven
                 /\ ret[p] = "error" <=> /\ outcome[p].kind # "success"
                                         /\ outcome[p].err \notin DeleteForgiven
                 /\ LastStatus(hist[p]) = "active" => ret[p] = "error"

\* the group was still active at the first refresh: Delete returned an error
C17_Witness ==
    \E p \in Procs :
        /\ op[p] = "delete"
        /\ apiErr[p] = "none"
        /\ Len(hist[p]) = 1
        /\ HasStatus(hist[p][1], {"active"})
        /\ outcome[p].kind = "UnexpectedStateError"
        /\ pc[p] = "done"
        /\ ret[p] = "error"

\* the refresh failed with invalid-user-group-state: Delete returned success
C17_WitnessForgiven ==
    \E p \in Procs :
        /\ op[p] = "delete"
        /\ outcome[p].kind = "RefreshError"
        /\ outcome[p].err = "InvalidUserGroupStateFault"
        /\ pc[p] = "done"
        /\ ret[p] = "ok"

\* the ModifyUserGroup request of an Update adds new minus old and removes old
\* minus new; the two are disjoint and turn the old set into the new one
RequestIsDifference(r) ==
    /\ r.add = r.new \ r.old
    /\ r.remove = r.old \ r.new
    /\ r.add \cap r.remove = {}
    /\ (r.old \ r.remove) \cup r.add = r.new

\* C18 as stated: Update calls ModifyUserGroup and starts a poll exactly when
\* the old and new user_ids differ; UserIdsToAdd is new minus old and
\* UserIdsToRemove is old minus new; a tags-only update makes no call and
\* starts no poll.
C18_ModifyAndPollIffChanged ==
    \A p \in Procs :
        op[p] = "update"
        => /\ req[p].sent <=> req[p].old # req[p].new
           /\ polls[p] = 1 <=> req[p].old # req[p].new
           /\ RequestIsDifference(req[p])
           /\ req[p].old = req[p].new => apiErr[p] = "notcalled" /\ polls[p] = 0

\* C18, amended: Update calls ModifyUserGroup exactly when the old and new
\* user_ids differ, and starts a poll exactly when that call was made and
\* succeeded; UserIdsToAdd is new minus old and UserIdsToRemove is old minus
\* new; a tags-only update makes no call and starts no poll.
C18_ModifyIffChanged ==
    \A p \in Procs :
        op[p] = "update"
        => /\ req[p].sent <=> req[p].old # req[p].new
           /\ req[p].sent <=> apiErr[p] # "notcalled"
           /\ polls[p] = 1 <=> (req[p].sent /\ apiErr[p] = "none")
           /\ polls[p] \in {0, 1}
           /\ RequestIsDifference(req[p])
           /\ req[p].old = req[p].new
              => apiErr[p] = "notcalled" /\ polls[p] = 0 /\ nCalls[p] = 0

\* user u1 is replaced by u2: one request adding u2 and removing u1, one poll
C18_Witness ==
    \E p \in Procs :
        /\ op[p] = "update"
        /\ req[p] = [old |-> {"u1"}, new |-> {"u2"}, add |-> {"u2"},
                     remove |-> {"u1"}, sent |-> TRUE]
        /\ apiErr[p] = "none"
        /\ polls[p] = 1
        /\ pc[p] = "done"

\* C19: Read never reads a field of a missing lookup result (it clears the ID
\* or returns an error instead, whatever the is-new flag and the not-found
\* signal), and the refresh closure returns a status only when the group has
\* one: no handler run ends in a nil dereference.
C19_NoNilDereference ==
    \A p \in Procs :
        /\ ret[p] # "panic"
        /\ \A i \in 1..Len(classes[p]) : classes[p][i] # "panic"

\* the keys a target action of the given kind carries
FieldsOf(action) ==
    IF action = "ResizeCluster" THEN Keys ELSE {"action", "cluster_identifier"}

\* the configured map restricted to the fields of its action kind
Restricted(m) == [k \in Keys |-> IF k \in FieldsOf(m["action"].s) THEN m[k] ELSE NilValue]

\* the variants set in a redshift.ScheduledActionType
Variants(v) ==
    {a \in ActionKinds : CASE a = "PauseCluster" -> v.PauseCluster.set
                           [] a = "ResumeCluster" -> v.ResumeCluster.set
                           [] a = "ResizeCluster" -> v.ResizeCluster.set}

Recognised(c) == ~c.isNil /\ c.m["action"].s \in ActionKinds

\* C20: expand sets exactly the variant of a recognised action and returns nil
\* for a nil or unrecognised one; flatten of the expanded value is the
\* configured map restricted to the fields of its action kind (action and
\* cluster_identifier, for ResizeCluster also classic, cluster_type, node_type
\* and number_of_nodes); flatten of a value with no variant is the empty map.
C20_ExpandFlattenRoundTrip ==
    LET c == redshift.configured IN
    /\ redshift.step \in {"expanded", "panicked", "flattened"}
       => IF Recognised(c)
          THEN /\ redshift.expanded.res = "value"
               /\ Variants(redshift.expanded.value) = {c.m["action"].s}
          ELSE redshift.expanded.res = "nil"
    /\ (redshift.step = "flattened" /\ Recognised(c))
       => redshift.flattened = Restricted(c.m)
    /\ (redshift.step = "read" /\ Variants(redshift.expanded.value) = {})
       => redshift.flattened = EmptyMap

\* the configured map holds every field of its action kind
Complete(c) == \A k \in FieldsOf(c.m["action"].s) : c.m[k] # NilValue

\* what does hold: the round trip of a configured map that holds every field
\* of its action kind
RoundTripWhenComplete ==
    LET c == redshift.configured IN
    /\ (redshift.step \in {"expanded", "panicked", "flattened"} /\ Recognised(c)
          /\ Complete(c))
       => /\ redshift.expanded.res = "value"
          /\ Variants(redshift.expanded.value) = {c.m["action"].s}
    /\ (redshift.step \in {"expanded", "panicked", "flattened"} /\ ~Recognised(c))
       => redshift.expanded.res = "nil"
    /\ (redshift.step = "flattened" /\ Recognised(c) /\ Complete(c))
       => redshift.flattened = Restricted(c.m)
    /\ (redshift.step = "read" /\ Variants(redshift.expanded.value) = {})
       => redshift.flattened = EmptyMap
    /\ redshift.step = "panicked"
       => Recognised(c) /\ c.m["action"].s = "ResizeCluster" /\ ~Complete(c)

====
